---- MODULE Spec2Model ----
(***************************************************************************)
(* A model of pcm-extract (src/src/main.rs): the interactive loop of main, *)
(* the byte decoder and predictive reconstruction of its decode pass, the  *)
(* command handlers that edit the options, and the playback block with its *)
(* audio callback and two-party barrier.                                   *)
(***************************************************************************)
EXTENDS Integers, Sequences, FiniteSets, TLC

(***************************************************************************)
(* Bounds of the model.                                                    *)
(***************************************************************************)
\* Longest input file (bytes) the model reads.
MaxLen == 3
\* Cap on the samples one decode pass may push (a pass with step 0 never ends).
MaxOut == 4
\* Commands read from the terminal in one session.
MaxCmds == 2
\* Most frames the device asks for in one callback invocation.
MaxChunk == 2
\* Frames the device requests after the window has ended, before the model stops it.
ExtraFrames == 3
\* usize is 64 bits wide on the targets the program builds for.  TLC's integers
\* are 32 bits wide, so the model keeps usize's modular structure with a word of
\* UsizeBits bits.
UsizeBits == 16

UsizeMod == 2 ^ UsizeBits
UsizeMax == UsizeMod - 1

(***************************************************************************)
(* Machine integers.                                                       *)
(***************************************************************************)
I16Min == -32768
I16Max == 32767
U8Max == 255

Byte == 0 .. U8Max

Min(a, b) == IF a < b THEN a ELSE b

\* x as i16, for an x that is the exact result of an i16 operation.
WrapI16(x) == ((x - I16Min) % 65536) + I16Min

Clamp16(x) == IF x > I16Max THEN I16Max ELSE IF x < I16Min THEN I16Min ELSE x

\* i16::saturating_add, saturating_sub, saturating_mul
saturating_add(a, b) == Clamp16(a + b)
saturating_sub(a, b) == Clamp16(a - b)
saturating_mul(a, b) == Clamp16(a * b)

\* u8::overflowing_sub(..).0 and i16::overflowing_sub(..).0
overflowing_sub_u8(a, b) == (a - b) % 256
overflowing_sub_i16(a, b) == WrapI16(a - b)

\* (b as i8) as i16
AsI8(b) == IF b >= 128 THEN b - 256 ELSE b

\* The plain operators +, -, * of Rust: the exact result when it fits the type;
\* otherwise a panic when the build has overflow checks (the debug profile) and
\* the wrapped result when it has none (the release profile).
PlainI16(x, checks) ==
  IF x >= I16Min /\ x <= I16Max THEN [panic |-> FALSE, val |-> x]
  ELSE IF checks THEN [panic |-> TRUE, val |-> 0]
  ELSE [panic |-> FALSE, val |-> WrapI16(x)]

PlainUsize(x, checks) ==
  IF x >= 0 /\ x <= UsizeMax THEN [panic |-> FALSE, val |-> x]
  ELSE IF checks THEN [panic |-> TRUE, val |-> 0]
  ELSE [panic |-> FALSE, val |-> x % UsizeMod]

(***************************************************************************)
(* Options.                                                                *)
(***************************************************************************)
Representations ==
  {"signed-magnitude", "ones-complement", "twos-complement", "excess-k", "custom"}

Compressions == {"dpcm0", "dpcm1", "dpcm2", "dpcm3", "dpcmroq", "dpcmsdx"}

DefaultTo == 8192

DefaultOpts ==
  [from |-> 0, to |-> DefaultTo, step |-> 1, skip |-> 0, k |-> 0, flip |-> 0,
   mirror |-> 0, sign |-> 1, representation |-> "twos-complement",
   compression |-> "dpcm0"]

(***************************************************************************)
(* The representation match of the decode loop: the byte read becomes the  *)
(* value d.  The custom representation also rewrites the byte d8 itself,   *)
(* which the dpcm1, dpcmroq and dpcmsdx arms read afterwards.              *)
(***************************************************************************)
\* A mirror step that reflects the byte about the threshold.
MirrorFoldReflect(d8, m) == IF d8 > m THEN (m - (d8 - m)) % 256 ELSE d8

MirrorFold(d8, m) == IF d8 > m THEN (m + overflowing_sub_u8(d8, m)) % 256 ELSE d8

FlipFold(d8, f) == IF d8 < f THEN overflowing_sub_u8(f, d8) ELSE d8

FoldedByte(o, d8) ==
  IF o.representation = "custom" THEN FlipFold(MirrorFold(d8, o.mirror), o.flip)
  ELSE d8

DecodeCustom(o, d8) == overflowing_sub_i16(AsI8(FoldedByte(o, d8)), o.k)

\* A decode that reads the byte as two's complement.
DecodeOnesAsTwos(d8) == IF d8 < 128 THEN d8 ELSE d8 - 256

DecodeOnesComplement(d8) == IF d8 < 128 THEN d8 ELSE -(U8Max - d8)

DecodeTwosComplement(d8) == AsI8(d8)

DecodeSignedMagnitude(o, d8) ==
  IF o.sign = 0
  THEN IF d8 % 2 = 0 THEN d8 \div 2 ELSE -(d8 \div 2)
  ELSE IF d8 \div 128 = 0 THEN d8 % 128 ELSE -(d8 % 128)

DecodeExcessK(o, d8) == overflowing_sub_i16(d8, o.k)

RepresentationDecode(o, d8) ==
  CASE o.representation = "custom" -> DecodeCustom(o, d8)
    [] o.representation = "ones-complement" -> DecodeOnesComplement(d8)
    [] o.representation = "twos-complement" -> DecodeTwosComplement(d8)
    [] o.representation = "signed-magnitude" -> DecodeSignedMagnitude(o, d8)
    [] o.representation = "excess-k" -> DecodeExcessK(o, d8)

(***************************************************************************)
(* The compression match of the decode loop: the sample pushed for value d *)
(* and byte d8 after the samples in buf, as [panic, val].                  *)
(***************************************************************************)
\* out[out.len() - n] when there are at least n samples, else 0
\* A history that reads 1 where the buffer has no sample yet.
HistOne(buf, n) == IF Len(buf) >= n THEN buf[Len(buf) - n + 1] ELSE 1

Hist(buf, n) == IF Len(buf) >= n THEN buf[Len(buf) - n + 1] ELSE 0

NoPanic(v) == [panic |-> FALSE, val |-> v]

\* A multiplication that wraps modulo 2^16 instead of saturating.
PushDPCM0Wrapping(d) == NoPanic(WrapI16(d * 256))

PushDPCM0(d) == NoPanic(saturating_mul(d, 256))

PushDPCM1(d8, buf) ==
  IF d8 < 128 THEN NoPanic(saturating_add(Hist(buf, 1), d8))
  ELSE NoPanic(saturating_sub(Hist(buf, 1), d8 - 128))

PushDPCM2(d, buf) ==
  NoPanic(saturating_add(
            saturating_sub(saturating_mul(Hist(buf, 1), 2), Hist(buf, 2)), d))

PushDPCM3(d, buf) ==
  NoPanic(saturating_add(
            saturating_add(
              saturating_sub(saturating_mul(Hist(buf, 1), 3),
                             saturating_mul(Hist(buf, 2), 3)),
              Hist(buf, 3)),
            d))

PushDPCMROQ(d8, buf, checks) ==
  LET sq == IF d8 < 128 THEN PlainI16(d8 * d8, checks)
            ELSE PlainI16((d8 - 128) * (d8 - 128), checks)
  IN IF sq.panic THEN sq
     ELSE IF d8 < 128 THEN NoPanic(saturating_add(Hist(buf, 1), sq.val))
     ELSE NoPanic(saturating_sub(Hist(buf, 1), sq.val))

\* let sq = n * n * 2: two plain i16 multiplications
SdxSquare(n, checks) ==
  LET nn == PlainI16(n * n, checks)
  IN IF nn.panic THEN nn ELSE PlainI16(nn.val * 2, checks)

PushDPCMSDX(d8, buf, checks) ==
  LET n == d8
      n1 == IF d8 % 2 = 0 THEN 0 ELSE Hist(buf, 1)
      sq == SdxSquare(n, checks)
  IN IF sq.panic THEN sq
     ELSE IF n < 0 THEN NoPanic(saturating_add(n1, sq.val))
     ELSE NoPanic(saturating_sub(n1, sq.val))

Reconstruct(o, raw, buf, checks) ==
  LET d8 == FoldedByte(o, raw)
      d == RepresentationDecode(o, raw)
  IN CASE o.compression = "dpcm0" -> PushDPCM0(d)
       [] o.compression = "dpcm1" -> PushDPCM1(d8, buf)
       [] o.compression = "dpcm2" -> PushDPCM2(d, buf)
       [] o.compression = "dpcm3" -> PushDPCM3(d, buf)
       [] o.compression = "dpcmroq" -> PushDPCMROQ(d8, buf, checks)
       [] o.compression = "dpcmsdx" -> PushDPCMSDX(d8, buf, checks)

(***************************************************************************)
(* The terminal line handed to a command handler: a command name and its   *)
(* arguments.  An argument is a sequence of characters; the name of an     *)
(* enum variant is written as one lexeme.                                  *)
(***************************************************************************)
Digits == <<"0", "1", "2", "3", "4", "5", "6", "7", "8", "9">>

IsDigit(c) == \E i \in 1 .. 10 : Digits[i] = c

DigitVal(c) == (CHOOSE i \in 1 .. 10 : Digits[i] = c) - 1

\* The digit loop of <unsigned>::from_str: -1 for an invalid digit or a value
\* above max, else the value.
RECURSIVE ParseDigits(_, _, _, _)
ParseDigits(tok, i, acc, max) ==
  IF i > Len(tok) THEN acc
  ELSE IF ~IsDigit(tok[i]) THEN -1
  ELSE LET v == acc * 10 + DigitVal(tok[i])
       IN IF v > max THEN -1 ELSE ParseDigits(tok, i + 1, v, max)

\* args[i].parse::<u8>() and args[i].parse::<usize>(): an optional leading +,
\* then at least one digit; -1 stands for Err.
ParseUnsigned(tok, max) ==
  IF Len(tok) = 0 THEN -1
  ELSE IF tok[1] = "+"
       THEN IF Len(tok) = 1 THEN -1 ELSE ParseDigits(tok, 2, 0, max)
       ELSE ParseDigits(tok, 1, 0, max)

ParseU8(tok) == ParseUnsigned(tok, U8Max)
ParseUsize(tok) == ParseUnsigned(tok, UsizeMax)

\* args[i].parse::<Representation>() and ::<Compression>(): the derived FromStr
\* accepts exactly the displayed names; "" stands for Err.
ParseRepresentation(tok) ==
  IF Len(tok) = 1 /\ tok[1] \in Representations THEN tok[1] ELSE ""

ParseCompression(tok) ==
  IF Len(tok) = 1 /\ tok[1] \in Compressions THEN tok[1] ELSE ""

ParsesAs(type, tok) ==
  CASE type = "u8" -> ParseU8(tok) >= 0
    [] type = "usize" -> ParseUsize(tok) >= 0
    [] type = "Representation" -> ParseRepresentation(tok) # ""
    [] type = "Compression" -> ParseCompression(tok) # ""

\* validator!(T1, ..., Tn)(args): the argument count is n and every argument
\* parses as its type.
Validator(types, args) ==
  /\ Len(args) = Len(types)
  /\ \A i \in 1 .. Len(types) : ParsesAs(types[i], args[i])

\* The types each setter's validator is built with.
ArgTypes(name) ==
  CASE name \in {"flip", "mirror", "sign", "k"} -> <<"u8">>
    [] name = "representation" -> <<"Representation">>
    [] name = "compression" -> <<"Compression">>
    [] name \in {"step", "skip"} -> <<"usize">>
    [] name = "range" -> <<"usize", "usize">>

Setters ==
  {"flip", "mirror", "sign", "k", "representation", "compression", "step",
   "skip", "range"}

WindowCommands == {"+", "-", "<", ">"}

\* A setter's handler after its validator has passed: the options it leaves.
SetFlip(o, args) == [o EXCEPT !.flip = ParseU8(args[1])]
SetMirror(o, args) == [o EXCEPT !.mirror = ParseU8(args[1])]
SetSign(o, args) == [o EXCEPT !.sign = ParseU8(args[1])]
SetK(o, args) == [o EXCEPT !.k = ParseU8(args[1])]
SetRepresentation(o, args) ==
  [o EXCEPT !.representation = ParseRepresentation(args[1])]
SetCompression(o, args) == [o EXCEPT !.compression = ParseCompression(args[1])]
SetStep(o, args) == [o EXCEPT !.step = ParseUsize(args[1])]
SetSkip(o, args) == [o EXCEPT !.skip = ParseUsize(args[1])]
SetRange(o, args) ==
  [o EXCEPT !.from = ParseUsize(args[1]), !.to = ParseUsize(args[2])]

ApplySetter(name, o, args) ==
  CASE name = "flip" -> SetFlip(o, args)
    [] name = "mirror" -> SetMirror(o, args)
    [] name = "sign" -> SetSign(o, args)
    [] name = "k" -> SetK(o, args)
    [] name = "representation" -> SetRepresentation(o, args)
    [] name = "compression" -> SetCompression(o, args)
    [] name = "step" -> SetStep(o, args)
    [] name = "skip" -> SetSkip(o, args)
    [] name = "range" -> SetRange(o, args)

\* A handler that assigns each field as soon as its own argument has parsed:
\* range with a valid first and an invalid second argument changes from.
SetterHandlerEager(name, o, args) ==
  IF Validator(ArgTypes(name), args) THEN ApplySetter(name, o, args)
  ELSE IF name = "range" /\ Len(args) = 2 /\ ParsesAs("usize", args[1])
  THEN [o EXCEPT !.from = ParseUsize(args[1])]
  ELSE o

\* validator(args)?; then the assignment(s).
SetterHandler(name, o, args) ==
  IF Validator(ArgTypes(name), args) THEN ApplySetter(name, o, args) ELSE o

(***************************************************************************)
(* The handlers of +, -, < and >, in plain usize arithmetic: [panic, opts].*)
(* Each assigns from before it computes to, so a panic in the second       *)
(* assignment leaves from already changed.                                 *)
(***************************************************************************)
Panicked(o) == [panic |-> TRUE, opts |-> o]
Done(o) == [panic |-> FALSE, opts |-> o]

ZoomIn(o, checks) ==
  LET w == PlainUsize(o.to - o.from, checks)
  IN IF w.panic THEN Panicked(o)
     ELSE LET amount == w.val \div 4
              f == PlainUsize(o.from + amount, checks)
          IN IF f.panic THEN Panicked(o)
             ELSE LET o1 == [o EXCEPT !.from = f.val]
                      t == PlainUsize(o.to - amount, checks)
                  IN IF t.panic THEN Panicked(o1)
                     ELSE Done([o1 EXCEPT !.to = t.val])

ZoomOut(o, checks) ==
  LET w == PlainUsize(o.to - o.from, checks)
  IN IF w.panic THEN Panicked(o)
     ELSE LET amount == w.val \div 2
              f == PlainUsize(o.from - Min(amount, o.from), checks)
          IN IF f.panic THEN Panicked(o)
             ELSE LET o1 == [o EXCEPT !.from = f.val]
                      t == PlainUsize(o.to + amount, checks)
                  IN IF t.panic THEN Panicked(o1)
                     ELSE Done([o1 EXCEPT !.to = t.val])

MoveLeft(o, checks) ==
  LET w == PlainUsize(o.to - o.from, checks)
  IN IF w.panic THEN Panicked(o)
     ELSE LET amount == w.val \div 2
              f == PlainUsize(o.from - Min(amount, o.from), checks)
          IN IF f.panic THEN Panicked(o)
             ELSE LET o1 == [o EXCEPT !.from = f.val]
                      t == PlainUsize(f.val + w.val, checks)
                  IN IF t.panic THEN Panicked(o1)
                     ELSE Done([o1 EXCEPT !.to = t.val])

MoveRight(o, checks) ==
  LET w == PlainUsize(o.to - o.from, checks)
  IN IF w.panic THEN Panicked(o)
     ELSE LET amount == w.val \div 2
              f == PlainUsize(o.from + amount, checks)
          IN IF f.panic THEN Panicked(o)
             ELSE LET o1 == [o EXCEPT !.from = f.val]
                      t == PlainUsize(f.val + w.val, checks)
                  IN IF t.panic THEN Panicked(o1)
                     ELSE Done([o1 EXCEPT !.to = t.val])

WindowHandler(name, o, checks) ==
  CASE name = "+" -> ZoomIn(o, checks)
    [] name = "-" -> ZoomOut(o, checks)
    [] name = "<" -> MoveLeft(o, checks)
    [] name = ">" -> MoveRight(o, checks)

(***************************************************************************)
(* State.                                                                  *)
(***************************************************************************)
VARIABLES
  input,            \* the bytes of the input file
  overflow_checks,  \* whether the build panics on arithmetic overflow
  opt_ref,          \* the options the command handlers edit
  play,             \* the play request flag
  out,              \* the decoded buffer
  opt,              \* the copy of the options a loop iteration works on
  ix,               \* the index the decode loop reads next
  pc,               \* where the controlling thread is
  fault,            \* why the process panicked, or "none"
  cmd,              \* the last line read by repl.next()
  cmds,             \* how many lines have been read
  reads,            \* the indices of input the current decode pass has read
  barrier,          \* how many threads are waiting at the barrier
  stream_live,      \* whether the output stream exists
  out_copy,         \* callback state: the snapshot of out,
  pfrom,            \*   the clamped window start,
  pto,              \*   the clamped window end,
  frames,           \*   the frame counter,
  done,             \*   the completion flag
  cpc,              \* where the callback thread is
  remaining,        \* frames left in the current callback invocation
  emitted,          \* per output frame, the index of out_copy written (-1: none)
  arrivals,         \* how often the callback has arrived at the barrier
  done_frame        \* the frame counter at the callback's first arrival

vars ==
  <<input, overflow_checks, opt_ref, play, out, opt, ix, pc, fault, cmd, cmds,
    reads, barrier, stream_live, out_copy, pfrom, pto, frames, done, cpc,
    remaining, emitted, arrivals, done_frame>>

ctrlVars == <<opt_ref, play, out, opt, ix, pc, fault, cmd, cmds, reads>>
decodeVars == <<out, opt, ix, reads>>
playVars ==
  <<barrier, stream_live, out_copy, pfrom, pto, frames, done, cpc, remaining,
    emitted, arrivals, done_frame>>
fixedVars == <<input, overflow_checks>>

\* Bytes the model's input files are made of.
InputBytes == {2, 255}

RECURSIVE SeqsUpTo(_, _)
SeqsUpTo(S, n) ==
  IF n = 0 THEN {<<>>}
  ELSE LET shorter == SeqsUpTo(S, n - 1)
       IN shorter \cup {Append(q, x) : q \in {r \in shorter : Len(r) = n - 1}, x \in S}

Inputs == SeqsUpTo(InputBytes, MaxLen)

NoCmd == [name |-> "", args |-> <<>>]

InitRest ==
  /\ play = FALSE
  /\ out = <<>>
  /\ ix = 0
  /\ pc = "loop_top"
  /\ fault = "none"
  /\ cmd = NoCmd
  /\ cmds = 0
  /\ reads = <<>>
  /\ barrier = 0
  /\ stream_live = FALSE
  /\ out_copy = <<>>
  /\ pfrom = 0
  /\ pto = 0
  /\ frames = 0
  /\ done = FALSE
  /\ cpc = "idle"
  /\ remaining = 0
  /\ emitted = <<>>
  /\ arrivals = 0
  /\ done_frame = 0

Init ==
  /\ input \in Inputs
  /\ overflow_checks \in BOOLEAN
  /\ opt_ref = DefaultOpts
  /\ opt = DefaultOpts
  /\ InitRest

(***************************************************************************)
(* The decode pass.                                                        *)
(***************************************************************************)
\* loop { let opt = opt_ref.borrow().clone(); let mut ix = opt.skip; out.clear();
\* (the line repl.next() read in the iteration before is gone by now)
\* A pass that appends to the buffer of the pass before.
KeptOut(buf) == buf

ClearedOut(buf) == <<>>

LoopTop ==
  /\ pc = "loop_top"
  /\ opt' = opt_ref
  /\ ix' = opt_ref.skip
  /\ out' = ClearedOut(out)
  /\ reads' = <<>>
  /\ cmd' = NoCmd
  /\ pc' = "decode"
  /\ UNCHANGED <<opt_ref, play, fault, cmds, fixedVars, playVars>>

\* ix += opt.step
NextIx(i, step, checks) == PlainUsize(i + step, checks)

\* A pass that also stops at the end of the window.
PassEndsAtWindow(i, bytes) == i >= Min(Len(bytes), opt.to)

\* if ix >= input.len() { break; }
PassEnds(i, bytes) == i >= Len(bytes)

\* One iteration of the inner loop.  input[ix] panics when ix is no index of
\* input; the compression arm and ix += opt.step may panic on overflow.
DecodeStep ==
  /\ pc = "decode"
  /\ Len(out) < MaxOut
  /\ IF ix >= Len(input)
     THEN /\ pc' = "panicked"
          /\ fault' = "index out of bounds"
          /\ UNCHANGED <<out, ix, reads>>
     ELSE LET r == Reconstruct(opt, input[ix + 1], out, overflow_checks)
              nx == NextIx(ix, opt.step, overflow_checks)
          IN /\ reads' = Append(reads, ix)
             /\ IF r.panic
                THEN /\ pc' = "panicked"
                     /\ fault' = "arithmetic overflow"
                     /\ UNCHANGED <<out, ix>>
                ELSE /\ out' = Append(out, r.val)
                     /\ IF nx.panic
                        THEN /\ pc' = "panicked"
                             /\ fault' = "arithmetic overflow"
                             /\ UNCHANGED ix
                        ELSE /\ ix' = nx.val
                             /\ pc' = IF PassEnds(nx.val, input) THEN "plot" ELSE "decode"
                             /\ UNCHANGED fault
  /\ UNCHANGED <<opt_ref, play, opt, cmd, cmds, fixedVars, playVars>>

(***************************************************************************)
(* Plotting and the playback block.                                        *)
(***************************************************************************)
\* A barrier for one party, which never blocks; and one for three, which two
\* threads never release.
SinglePartyBarrier == 2 - 1
ThreePartyBarrier == 2 + 1

\* Barrier::new(2)
BarrierParties == 2

\* The two charts are drawn; play is false.
SkipPlayback ==
  /\ pc = "plot"
  /\ ~play
  /\ pc' = "repl"
  /\ UNCHANGED <<opt_ref, play, decodeVars, fault, cmd, cmds, fixedVars, playVars>>

\* A playback block that leaves the request flag as it found it.
KeptPlayFlag == play

\* *play.borrow_mut() = false
ClearedPlayFlag == FALSE

\* The two charts are drawn; play is true: the flag is cleared, the callback's
\* state is set up, the stream is built and started.
StartPlayback ==
  /\ pc = "plot"
  /\ play
  /\ play' = ClearedPlayFlag
  /\ barrier' = 0
  /\ out_copy' = out
  /\ pfrom' = Min(opt.from, Len(out))
  /\ pto' = Min(opt.to, Len(out))
  /\ frames' = 0
  /\ done' = FALSE
  /\ stream_live' = TRUE
  /\ cpc' = "idle"
  /\ remaining' = 0
  /\ emitted' = <<>>
  /\ arrivals' = 0
  /\ done_frame' = 0
  /\ pc' = "wait"
  /\ UNCHANGED <<opt_ref, decodeVars, fault, cmd, cmds, fixedVars>>

\* Barrier::wait by the thread arriving: the last of BarrierParties releases
\* every waiting thread and passes, any other blocks.
LastToArrive == barrier + 1 >= BarrierParties

\* barrier.wait() on the controlling thread
ControllerWait ==
  /\ pc = "wait"
  /\ IF LastToArrive
     THEN /\ barrier' = 0
          /\ pc' = "passed"
          /\ cpc' = IF cpc = "blocked" THEN "woken" ELSE cpc
     ELSE /\ barrier' = barrier + 1
          /\ pc' = "blocked"
          /\ UNCHANGED cpc
  /\ UNCHANGED <<opt_ref, play, decodeVars, fault, cmd, cmds, fixedVars,
                 stream_live, out_copy, pfrom, pto, frames, done, remaining,
                 emitted, arrivals, done_frame>>

\* println!("done!"), and the stream is dropped at the end of the block, which
\* waits for a running callback to return; the callback's state goes with it.
EndPlayback ==
  /\ pc = "passed"
  /\ cpc = "idle"
  /\ stream_live' = FALSE
  /\ pc' = "repl"
  /\ barrier' = 0
  /\ out_copy' = <<>>
  /\ pfrom' = 0
  /\ pto' = 0
  /\ frames' = 0
  /\ done' = FALSE
  /\ emitted' = <<>>
  /\ arrivals' = 0
  /\ done_frame' = 0
  /\ UNCHANGED <<opt_ref, play, decodeVars, fault, cmd, cmds, fixedVars, cpc,
                 remaining>>

(***************************************************************************)
(* The audio callback.                                                     *)
(***************************************************************************)
\* Frames the model lets the device request in one playback.
FrameCap == 2 * Len(out_copy) + ExtraFrames

\* The device invokes the callback with a buffer of n frames.
CallbackInvoke ==
  /\ stream_live
  /\ cpc = "idle"
  /\ frames < FrameCap
  /\ \E n \in 1 .. MaxChunk : remaining' = n
  /\ cpc' = "frame"
  /\ UNCHANGED <<ctrlVars, fixedVars, barrier, stream_live, out_copy, pfrom, pto,
                 frames, done, emitted, arrivals, done_frame>>

\* A callback that advances one sample per frame.
SourceIndexNoHold(from, n) == from + n

\* let ix = from + frames / 2
SourceIndex(from, n) == from + n \div 2

\* A callback that signals on every frame past the window end.
SignalsEveryTime(d) == TRUE

\* else if !done
ShouldSignal(d) == ~d

\* frames += 1, and the end of the loop body
FrameDone ==
  /\ frames' = frames + 1
  /\ remaining' = remaining - 1
  /\ cpc' = IF remaining = 1 THEN "idle" ELSE "frame"

\* The body of the loop over the frames of data, up to c.wait().
CallbackFrame ==
  /\ cpc = "frame"
  /\ LET i == SourceIndex(pfrom, frames)
     IN IF i < pto
        THEN /\ emitted' = Append(emitted, i)
             /\ FrameDone
             /\ UNCHANGED <<done, barrier, pc, arrivals, done_frame>>
        ELSE IF ShouldSignal(done)
        THEN /\ done' = TRUE
             /\ arrivals' = arrivals + 1
             /\ done_frame' = IF arrivals = 0 THEN frames ELSE done_frame
             /\ emitted' = Append(emitted, -1)
             /\ IF LastToArrive
                THEN /\ barrier' = 0
                     /\ pc' = IF pc = "blocked" THEN "passed" ELSE pc
                     /\ FrameDone
                ELSE /\ barrier' = barrier + 1
                     /\ cpc' = "blocked"
                     /\ UNCHANGED <<pc, frames, remaining>>
        ELSE /\ emitted' = Append(emitted, -1)
             /\ FrameDone
             /\ UNCHANGED <<done, barrier, pc, arrivals, done_frame>>
  /\ UNCHANGED <<opt_ref, play, decodeVars, fault, cmd, cmds, fixedVars,
                 stream_live, out_copy, pfrom, pto>>

\* c.wait() returns in the callback.
CallbackResume ==
  /\ cpc = "woken"
  /\ FrameDone
  /\ UNCHANGED <<ctrlVars, fixedVars, barrier, stream_live, out_copy, pfrom, pto,
                 done, emitted, arrivals, done_frame>>

(***************************************************************************)
(* repl.next(): one line is read and its handler run.                      *)
(***************************************************************************)
\* The decimal digits of n, as an argument.
RECURSIVE Decimal(_)
Decimal(n) ==
  IF n < 10 THEN <<Digits[n + 1]>> ELSE Append(Decimal(n \div 10), Digits[(n % 10) + 1])

\* Arguments the model types: numbers that fit u8, that fit only usize, the
\* largest usize, and text that is no number.
NumberTokens == {<<"0">>, <<"2">>, <<"3", "0", "0">>, Decimal(UsizeMax), <<"x">>}
WordTokens == {<<"excess-k">>, <<"custom">>, <<"dpcm2">>, <<"dpcmsdx">>}
PairTokens == {<<"0">>, <<"2">>, Decimal(UsizeMax), <<"x">>}

ArgLists ==
  {<<>>} \cup {<<t>> : t \in NumberTokens \cup WordTokens}
         \cup {<<a, b>> : a \in PairTokens, b \in PairTokens}

\* A setter: an invalid argument list is reported and the loop continues.
ReplSetter ==
  /\ pc = "repl"
  /\ cmds < MaxCmds
  /\ \E name \in Setters, args \in ArgLists :
       /\ cmd' = [name |-> name, args |-> args]
       /\ opt_ref' = SetterHandler(name, opt_ref, args)
  /\ cmds' = cmds + 1
  /\ pc' = "loop_top"
  /\ UNCHANGED <<play, decodeVars, fault, fixedVars, playVars>>

\* +, -, < or >: the handler ignores its arguments.
ReplWindow ==
  /\ pc = "repl"
  /\ cmds < MaxCmds
  /\ \E name \in WindowCommands :
       LET r == WindowHandler(name, opt_ref, overflow_checks)
       IN /\ cmd' = [name |-> name, args |-> <<>>]
          /\ opt_ref' = r.opts
          /\ pc' = IF r.panic THEN "panicked" ELSE "loop_top"
          /\ fault' = IF r.panic THEN "arithmetic overflow" ELSE fault
  /\ cmds' = cmds + 1
  /\ UNCHANGED <<play, decodeVars, fixedVars, playVars>>

\* play
ReplPlay ==
  /\ pc = "repl"
  /\ cmds < MaxCmds
  /\ cmd' = [name |-> "play", args |-> <<>>]
  /\ play' = TRUE
  /\ cmds' = cmds + 1
  /\ pc' = "loop_top"
  /\ UNCHANGED <<opt_ref, decodeVars, fault, fixedVars, playVars>>

\* A line that names no command (or help, or an empty line): nothing is run
\* and the loop continues.
ReplOther ==
  /\ pc = "repl"
  /\ cmds < MaxCmds
  /\ cmd' = [name |-> "?", args |-> <<>>]
  /\ cmds' = cmds + 1
  /\ pc' = "loop_top"
  /\ UNCHANGED <<opt_ref, play, decodeVars, fault, fixedVars, playVars>>

\* quit, or the end of the terminal input: the loop is left.
ReplQuit ==
  /\ pc = "repl"
  /\ cmd' = [name |-> "quit", args |-> <<>>]
  /\ pc' = "write_wav"
  /\ UNCHANGED <<opt_ref, play, decodeVars, fault, cmds, fixedVars, playVars>>

\* The decoded buffer is written to the output file.
WriteWav ==
  /\ pc = "write_wav"
  /\ pc' = "exit"
  /\ UNCHANGED <<opt_ref, play, decodeVars, fault, cmd, cmds, fixedVars, playVars>>

(***************************************************************************)
(* Specifications.                                                         *)
(***************************************************************************)
Next ==
  \/ LoopTop
  \/ DecodeStep
  \/ SkipPlayback
  \/ StartPlayback
  \/ ControllerWait
  \/ EndPlayback
  \/ CallbackInvoke
  \/ CallbackFrame
  \/ CallbackResume
  \/ ReplSetter
  \/ ReplWindow
  \/ ReplPlay
  \/ ReplOther
  \/ ReplQuit
  \/ WriteWav

\* The program from its start, with the default options.
Spec == Init /\ [][Next]_vars

\* The same, with the scheduling the playback block relies on: the device keeps
\* invoking the callback while the stream exists, a callback that can run does
\* run, and the controlling thread is scheduled.
FairSpec ==
  /\ Spec
  /\ WF_vars(CallbackInvoke)
  /\ WF_vars(CallbackFrame)
  /\ WF_vars(CallbackResume)
  /\ WF_vars(ControllerWait)
  /\ WF_vars(EndPlayback)

\* The same, with the controlling thread also running its loop: a pass that
\* can start or continue does, and a requested playback is started.
FairLoopSpec ==
  /\ FairSpec
  /\ WF_vars(LoopTop)
  /\ WF_vars(DecodeStep)
  /\ WF_vars(StartPlayback)

\* The decode pass alone, as a function of the options and the input: the
\* options are drawn from every representation and compression, with the
\* parameters each representation reads, and the input from every single byte
\* and from short files of DecodeBytes.
DecodeBytes == {1, 127, 255}

DecodeParams ==
  {[DefaultOpts EXCEPT !.representation = "twos-complement"],
   [DefaultOpts EXCEPT !.representation = "ones-complement"]}
  \cup {[DefaultOpts EXCEPT !.representation = "signed-magnitude", !.sign = s] :
          s \in {0, 1}}
  \cup {[DefaultOpts EXCEPT !.representation = "excess-k", !.k = k] :
          k \in {0, 3, 128}}
  \cup {[DefaultOpts EXCEPT !.representation = "custom", !.flip = f,
                            !.mirror = m, !.k = k] :
          f \in {0, 100}, m \in {0, 50}, k \in {0, 3}}

DecodeOpts == {[o EXCEPT !.compression = c] : o \in DecodeParams, c \in Compressions}

\* The four-byte stream of the spec's round-trip scenario.
RoundTripStream == <<0, 127, 128, 255>>

\* A stream long enough for the third-order predictor to read three samples
\* of history; every byte of it decodes to 0 under ones-complement.
ZeroResidualStream == <<255, 255, 255, 255>>

DecodeInputs ==
  {<<b>> : b \in Byte} \cup (SeqsUpTo(DecodeBytes, MaxLen) \ {<<>>})
                        \cup {RoundTripStream, ZeroResidualStream}

InitDecode ==
  /\ input \in DecodeInputs
  /\ overflow_checks \in BOOLEAN
  /\ opt_ref \in DecodeOpts
  /\ opt = DefaultOpts
  /\ InitRest

NextDecode == LoopTop \/ DecodeStep

SpecDecode == InitDecode /\ [][NextDecode]_vars

(***************************************************************************)
(* The claims.                                                             *)
(***************************************************************************)
\* The byte the decode pass read for its n-th sample, and the samples before it.
RawAt(n) == input[reads[n] + 1]
Before(n) == SubSeq(out, 1, n - 1)

\* A panic raised inside the decode pass (no command is being handled).
DecodePanicked == pc = "panicked" /\ cmd = NoCmd

\* C1: the controlling thread is past its barrier wait only after the callback
\* has processed a frame whose source index from + frames/2 is >= to, and by
\* then every sample of the window [from, to) has been written to a frame.
C1_ControllerPassesAfterEndOfWindow ==
  pc = "passed" =>
    /\ done
    /\ arrivals >= 1
    /\ SourceIndex(pfrom, done_frame) >= pto
    /\ \A i \in pfrom .. (pto - 1) : \E n \in 1 .. Len(emitted) : emitted[n] = i

\* C1 witness: the controller has passed the barrier of a playback whose window
\* holds at least two samples.
C1_Witness == pc = "passed" /\ pto >= pfrom + 2

\* C2: under fair scheduling of the device and the threads, a playback whose
\* controller has reached its barrier wait always leads to the callback having
\* arrived at the barrier and the controller's wait having returned, for every
\* window (to beyond the buffer, from >= to included).
C2_PlaybackCompletes == (pc = "wait") ~> (pc = "passed" /\ done /\ arrivals = 1)

\* C2 witness: the controller's wait has returned in a playback whose configured
\* window end lies beyond the end of a buffer of at least two samples.
C2_Witness == pc = "passed" /\ opt.to > Len(out_copy) /\ Len(out_copy) >= 2

\* C3 as stated: under dpcm1 each sample is the previous sample (0 when there is
\* none) plus the RepresentationDecoder output for the byte read, saturating.
C3_Order1AddsDecodedResidual ==
  opt.compression = "dpcm1" =>
    \A n \in 1 .. Len(out) :
      out[n] = Clamp16(Hist(Before(n), 1) + RepresentationDecode(opt, RawAt(n)))

\* The byte read as a sign bit (the top bit) and a 7-bit magnitude.
SignMagnitude(b) == IF b < 128 THEN b ELSE -(b - 128)

\* C3, what the code computes instead: under dpcm1 each sample is the previous sample (0 when there is
\* none) plus, saturating, the sign-and-magnitude reading of the byte (b if
\* b < 128, else -(b - 128)), where the byte is the one read after the custom
\* representation's folds and the raw byte in every other representation.
C3_Order1AddsSignMagnitudeOfByte ==
  opt.compression = "dpcm1" =>
    \A n \in 1 .. Len(out) :
      out[n] = Clamp16(Hist(Before(n), 1) + SignMagnitude(FoldedByte(opt, RawAt(n))))

\* C3, a case of it: a dpcm1 pass in twos-complement has pushed a second sample for a
\* byte with the top bit set.
C3_Witness ==
  /\ opt.compression = "dpcm1"
  /\ opt.representation = "twos-complement"
  /\ Len(out) >= 2
  /\ RawAt(2) >= 128

\* The sample the reconstruction step would push if every operation of it gave
\* the exact result clamped to the i16 range.
ClampedSample(o, raw, buf) ==
  LET d8 == FoldedByte(o, raw)
      m == d8 - 128
      n1 == Hist(buf, 1)
  IN CASE o.compression = "dpcmroq" ->
            IF d8 < 128 THEN Clamp16(n1 + Clamp16(d8 * d8))
            ELSE Clamp16(n1 - Clamp16(m * m))
       [] o.compression = "dpcmsdx" ->
            Clamp16((IF d8 % 2 = 0 THEN 0 ELSE n1) - Clamp16(Clamp16(d8 * d8) * 2))
       [] OTHER -> Reconstruct(o, raw, buf, FALSE).val

\* C4 as stated: in every compression mode no operation of the reconstruction
\* step overflows (the pass never panics on arithmetic overflow in it) or wraps
\* (every sample is the exact result clamped to the i16 range).
C4_AllArithmeticSaturates ==
  /\ ~(DecodePanicked /\ fault = "arithmetic overflow" /\ Len(reads) > Len(out))
  /\ \A n \in 1 .. Len(out) : out[n] = ClampedSample(opt, RawAt(n), Before(n))

\* C5 as stated: the stride is at least 1 whenever a decode pass runs.
C5_StepAtLeastOne == pc = "decode" => opt.step >= 1

\* ceil((N - skip) / step)
CeilDiv(a, b) == (a + b - 1) \div b

\* C6 as stated: with skip < N and step >= 1 a decode pass reads the indices
\* skip, skip + step, ... below N in that order and no other, does not fail, and
\* ends with one sample per index read, ceil((N - skip) / step) of them.
C6_StrideWalk ==
  (pc \in {"decode", "plot", "panicked"} /\ opt.skip < Len(input) /\ opt.step >= 1) =>
    /\ \A n \in 1 .. Len(reads) :
         reads[n] = opt.skip + (n - 1) * opt.step /\ reads[n] < Len(input)
    /\ ~DecodePanicked
    /\ pc = "plot" =>
         /\ Len(out) = Len(reads)
         /\ Len(out) = CeilDiv(Len(input) - opt.skip, opt.step)

\* C7: a setter whose argument list fails validation (a wrong number of
\* arguments, or an argument that does not parse as its type) leaves every
\* field of the options as it was.
C7_InvalidArgsKeepConfig ==
  [][(pc = "repl" /\ cmd'.name \in Setters
        /\ (\/ Len(cmd'.args) # Len(ArgTypes(cmd'.name))
            \/ \E i \in 1 .. Len(cmd'.args) :
                 i <= Len(ArgTypes(cmd'.name))
                 /\ ~ParsesAs(ArgTypes(cmd'.name)[i], cmd'.args[i])))
      => opt_ref' = opt_ref]_vars

\* C7 witness: range has been typed with a valid first and an invalid second
\* argument.
C7_Witness ==
  /\ pc = "loop_top"
  /\ cmd = [name |-> "range", args |-> <<<<"2">>, <<"x">>>>]

\* The buffer a decode pass builds from an empty buffer under options o.
RECURSIVE DecodeFrom(_, _, _, _, _)
DecodeFrom(o, bytes, i, buf, checks) ==
  IF i >= Len(bytes) \/ Len(buf) > MaxOut THEN buf
  ELSE LET r == Reconstruct(o, bytes[i + 1], buf, checks)
           nx == NextIx(i, o.step, checks)
       IN IF r.panic THEN buf
          ELSE IF nx.panic \/ PassEnds(nx.val, bytes) THEN Append(buf, r.val)
          ELSE DecodeFrom(o, bytes, nx.val, Append(buf, r.val), checks)

\* C8: at the end of every decode pass the buffer is what decoding the input
\* from an empty buffer (zero history) under the current options gives,
\* whatever was configured and decoded before.
C8_BufferIsFreshDecode ==
  pc = "plot" => out = DecodeFrom(opt_ref, input, opt_ref.skip, <<>>, overflow_checks)

\* C8 witness: a pass under a history-dependent compression has ended after an
\* earlier pass under other options left a buffer behind.
C8_Witness ==
  /\ pc = "plot"
  /\ cmds >= 2
  /\ opt_ref.compression = "dpcm2"
  /\ Len(out) >= 2
  /\ out[2] # 0

\* C9: within one playback the callback arrives at the barrier at most once,
\* has arrived exactly when its completion flag is set, and arrived on the
\* first frame whose source index reached the window end.
C9_SignalsOnce ==
  stream_live =>
    /\ arrivals <= 1
    /\ done <=> (arrivals = 1)
    /\ arrivals = 1 =>
         /\ SourceIndex(pfrom, done_frame) >= pto
         /\ done_frame = 0 \/ SourceIndex(pfrom, done_frame - 1) < pto

\* C9 witness: after signalling, the callback has processed three further
\* frames in later invocations.
C9_Witness ==
  /\ stream_live
  /\ arrivals = 1
  /\ cpc = "idle"
  /\ frames >= done_frame + 4

\* C10 as stated: the window satisfies from <= to after any sequence of
\* commands, and no window command underflows in to - from.
C10_WindowOrdered ==
  /\ opt_ref.from <= opt_ref.to
  /\ ~(pc = "panicked" /\ cmd.name \in WindowCommands)

\* C11 as stated: a decode pass reads only bytes of the window [from, to) of the
\* input.
C11_DecodesOnlyWindow ==
  \A n \in 1 .. Len(reads) : opt.from <= reads[n] /\ reads[n] < opt.to

\* C11 amended: a decode pass does not use the window.  It starts at the start
\* offset skip and ends only when the walk has passed the end of the input,
\* with one sample per byte read, whatever from and to are: from and to select
\* only what is plotted and played of the decoded buffer.
C11_DecodeIgnoresWindow ==
  /\ (pc \in {"decode", "plot"} /\ Len(reads) >= 1) => reads[1] = opt.skip
  /\ pc = "plot" => (ix >= Len(input) /\ Len(out) = Len(reads) /\ Len(reads) >= 1)

\* C11 witness: a pass has ended with a sample decoded from the byte at index 2
\* while the window is [0, 2).
C11_Witness ==
  /\ pc = "plot"
  /\ opt.from = 0
  /\ opt.to = 2
  /\ Len(reads) = 3
  /\ reads[3] = 2

\* C12: under dpcm0 every sample is the decoded value of its byte times 256,
\* clamped to the i16 range, in every representation; and the twos-complement
\* stream [0x00, 0x7F, 0x80, 0xFF] with stride 1 decodes to
\* [0, 32512, -32768, -256].
C12_NoCompressionScalesBy256 ==
  opt.compression = "dpcm0" =>
    /\ \A n \in 1 .. Len(out) :
         LET v == RepresentationDecode(opt, RawAt(n)) * 256
         IN out[n] = IF v > 32767 THEN 32767 ELSE IF v < -32768 THEN -32768 ELSE v
    /\ (pc = "plot" /\ input = RoundTripStream /\ opt.step = 1 /\ opt.skip = 0
          /\ opt.representation = "twos-complement")
         => out = <<0, 32512, -32768, -256>>

\* C12 witness: the round-trip stream has been decoded in full under
\* twos-complement and dpcm0.
C12_Witness ==
  /\ pc = "plot"
  /\ opt.compression = "dpcm0"
  /\ opt.representation = "twos-complement"
  /\ input = RoundTripStream
  /\ Len(out) = 4

\* C13 as stated: when skip is no index of the input the pass fails before it
\* pushes a sample, and nothing is plotted, played or written afterwards; and
\* when skip is an index of the input the pass does not fail.
C13_FailsExactlyWhenSkipOutOfBounds ==
  /\ (pc \in {"decode", "panicked"} /\ cmd = NoCmd /\ opt.skip >= Len(input))
       => out = <<>>
  /\ pc \in {"plot", "wait", "blocked", "passed", "repl", "write_wav", "exit"}
       => opt.skip < Len(input)
  /\ opt.skip < Len(input) => ~DecodePanicked

\* C13, the part that holds: with skip out of bounds the pass panics on its
\* first read with an empty buffer, and the loop never gets past the decode.
C13_OutOfBoundsSkipIsFatal ==
  /\ (pc \in {"decode", "panicked"} /\ cmd = NoCmd /\ opt.skip >= Len(input))
       => out = <<>>
  /\ pc \in {"plot", "wait", "blocked", "passed", "repl", "write_wav", "exit"}
       => opt.skip < Len(input)

\* The bitwise NOT of a byte, bit by bit.
BitNot8(b) ==
  LET bit(i) == (b \div (2 ^ i)) % 2
      flip(i) == (1 - bit(i)) * (2 ^ i)
  IN flip(0) + flip(1) + flip(2) + flip(3) + flip(4) + flip(5) + flip(6) + flip(7)

\* C14: the ones-complement decode of a byte b is b below 128 and minus the
\* bitwise NOT of b otherwise; 0x00 and 0xFF give 0, 0x01 gives 1, 0xFE gives
\* -1, every value lies in [-127, 127], and the pass does not fail on it.
C14_OnesComplementDecode ==
  opt.representation = "ones-complement" =>
    /\ \A n \in 1 .. Len(reads) :
         LET b == RawAt(n)
             d == RepresentationDecode(opt, b)
         IN /\ d = IF b < 128 THEN b ELSE -BitNot8(b)
            /\ d >= -127 /\ d <= 127
            /\ b \in {0, 255} => d = 0
            /\ b = 1 => d = 1
            /\ b = 254 => d = -1
            /\ (opt.compression = "dpcm0" /\ n <= Len(out)) => out[n] = 256 * d
    /\ opt.compression = "dpcm0" => ~DecodePanicked

\* A finished ones-complement pass over the single byte 0xFE, decoded to -1.
C14_Witness ==
  /\ pc = "plot" /\ opt.representation = "ones-complement"
  /\ opt.compression = "dpcm0" /\ input = <<254>> /\ out = <<-256>>

\* C15: under second-order and third-order prediction, a pass whose decoded
\* residuals are all 0 reconstructs only zeros from the empty history, and
\* does not fail.
C15_ZeroResidualsStayZero ==
  (/\ opt.compression \in {"dpcm2", "dpcm3"}
   /\ \A n \in 1 .. Len(reads) : RepresentationDecode(opt, RawAt(n)) = 0)
    => /\ \A n \in 1 .. Len(out) : out[n] = 0
       /\ ~DecodePanicked

\* A finished third-order pass over four zero residuals: the fourth sample is
\* predicted from three samples of real history.
C15_Witness ==
  /\ pc = "plot" /\ opt.compression = "dpcm3"
  /\ opt.representation = "ones-complement"
  /\ input = ZeroResidualStream /\ out = <<0, 0, 0, 0>>

\* The frames of the running playback, counted from 0, that carried the
\* snapshot sample at index j.
FramesCarrying(j) == {n \in 0 .. Len(emitted) - 1 : emitted[n + 1] = j}

\* C16: in a playback, frame n with from + n div 2 below to carries the
\* snapshot sample at index from + n div 2, from and to being the window
\* bounds clamped to the snapshot's length; every index read is an index of
\* the snapshot; and once the end of the window was signalled each sample of
\* the window was carried by exactly the frames 2(j - from) and 2(j - from) + 1.
C16_ZeroOrderHold ==
  stream_live =>
    /\ pfrom = Min(opt.from, Len(out_copy))
    /\ pto = Min(opt.to, Len(out_copy))
    /\ \A n \in 0 .. Len(emitted) - 1 :
         LET i == pfrom + n \div 2
         IN /\ i < pto => (emitted[n + 1] = i /\ 0 <= i /\ i < Len(out_copy))
            /\ i >= pto => emitted[n + 1] = -1
    /\ \A j \in pfrom .. pto - 1 :
         /\ Cardinality(FramesCarrying(j)) <= 2
         /\ done => FramesCarrying(j) = {2 * (j - pfrom), 2 * (j - pfrom) + 1}

\* A playback of a two-sample window whose end was clamped to the snapshot's
\* length, after the end of the window was signalled.
C16_Witness ==
  /\ stream_live /\ done /\ opt.to > Len(out_copy)
  /\ pfrom = 0 /\ pto = 2 /\ emitted = <<0, 0, 1, 1, -1>>

\* The byte the compression arm sees for the n-th sample: the byte read, folded
\* by the custom representation's arm when that is selected.
SdxByte(n) == FoldedByte(opt, RawAt(n))

\* The history the n-th sample of a dpcmsdx pass starts from: 0 when the low
\* bit of its byte is 0, the previous sample otherwise.
SdxBase(n) ==
  IF SdxByte(n) % 2 = 0 \/ n = 1 THEN 0 ELSE out[n - 1]

\* C17 as stated: in a dpcmsdx pass the direction in which a sample leaves its
\* (possibly reset) history follows the sign of the decoded amplitude: one
\* sign moves it up and the other moves it down, the same way for every
\* sample of the pass.
C17_DirectionFollowsDecodedSign ==
  opt.compression = "dpcmsdx" =>
    LET d(n) == RepresentationDecode(opt, RawAt(n))
        up(n) == out[n] > SdxBase(n)
        down(n) == out[n] < SdxBase(n)
        moved == {n \in 1 .. Len(out) : out[n] # SdxBase(n)}
    IN \/ \A n \in moved : (d(n) < 0 => up(n)) /\ (d(n) > 0 => down(n))
       \/ \A n \in moved : (d(n) < 0 => down(n)) /\ (d(n) > 0 => up(n))

\* C17, what the code does: n is the raw byte and never negative, so for a byte
\* below 128 twice its square is subtracted from the history whatever the
\* decoded amplitude is.
C17_AlwaysSubtractsForSmallBytes ==
  opt.compression = "dpcmsdx" =>
    \A n \in 1 .. Len(out) :
      SdxByte(n) < 128 =>
        out[n] = saturating_sub(SdxBase(n), 2 * SdxByte(n) * SdxByte(n))

\* The custom decode written without the mirror step.
CustomWithoutMirror(b, f, k) ==
  LET folded == IF b < f THEN (f - b) % 256 ELSE b
      signed == IF folded >= 128 THEN folded - 256 ELSE folded
  IN WrapI16(signed - k)

\* C18: in the custom representation the decoded value of every byte read is
\* the same for all 256 mirror thresholds, and is the signed reading of the
\* flip-folded byte minus k; without compression the sample is 256 times it.
C18_MirrorIsNoOp ==
  opt.representation = "custom" =>
    \A n \in 1 .. Len(reads) :
      LET b == RawAt(n)
          expected == CustomWithoutMirror(b, opt.flip, opt.k)
      IN /\ RepresentationDecode(opt, b) = expected
         /\ \A m \in Byte : DecodeCustom([opt EXCEPT !.mirror = m], b) = expected
         /\ (opt.compression = "dpcm0" /\ n <= Len(out))
              => out[n] = Clamp16(256 * expected)

\* A finished custom pass over a byte above the mirror threshold and below
\* the flip threshold: both fold conditions were taken.
C18_Witness ==
  /\ pc = "plot" /\ opt.representation = "custom" /\ opt.compression = "dpcm0"
  /\ opt.mirror = 50 /\ opt.flip = 100 /\ opt.k = 3
  /\ input = <<60>> /\ out = <<256 * 37>>

\* A step that starts a playback.
PlaybackStarts == ~stream_live /\ stream_live'

\* C19: every play command is followed by one playback of its own. The
\* request flag is set by the play command only; while it is set the loop is
\* in the iteration that follows the command and executes no other command;
\* the iteration ends in the start of a stream, which is the only step that
\* clears the flag, clears it before the stream exists, and snapshots the
\* buffer decoded afresh under the current options; and no stream starts
\* without the flag.
C19_PlayCausesOnePlayback ==
  /\ [](play => pc \in {"loop_top", "decode", "plot"})
  /\ [](stream_live => ~play)
  /\ [][(~play /\ play') => (pc = "repl" /\ cmd'.name = "play")]_vars
  /\ [][(play /\ ~play') => PlaybackStarts]_vars
  /\ [][PlaybackStarts =>
          /\ play /\ ~play' /\ pc = "plot" /\ opt = opt_ref
          /\ out_copy' = DecodeFrom(opt_ref, input, opt_ref.skip, <<>>,
                                    overflow_checks)]_vars
  /\ (play ~> stream_live)

\* A playback is running after the last command the session executes, its
\* request flag already cleared.
C19_Witness ==
  /\ stream_live /\ cmds = MaxCmds /\ ~play /\ Len(out_copy) >= 1

\* A step in which one of +, -, <, > ran to its end on an ordered window.
WindowCommandReturns ==
  /\ pc = "repl" /\ pc' = "loop_top"
  /\ cmd'.name \in WindowCommands
  /\ opt_ref.from <= opt_ref.to

\* C20 as stated: a window command on a window with from <= to leaves
\* from <= to and from >= 0, < and > keep the width to - from, < at from = 0
\* leaves the window as it is, and no other field of the options changes.
C20_WindowCommandsKeepOrderAndWidth ==
  [][WindowCommandReturns =>
       /\ 0 <= opt_ref'.from /\ opt_ref'.from <= opt_ref'.to
       /\ cmd'.name \in {"<", ">"}
            => opt_ref'.to - opt_ref'.from = opt_ref.to - opt_ref.from
       /\ (cmd'.name = "<" /\ opt_ref.from = 0) => opt_ref' = opt_ref
       /\ opt_ref' = [opt_ref EXCEPT !.from = opt_ref'.from, !.to = opt_ref'.to]
    ]_vars

\* C20, the part that holds: the same, for the windows whose end can move up
\* by half the width without leaving the range of usize.
C20_HoldsWithoutOverflow ==
  [][(/\ WindowCommandReturns
      /\ opt_ref.to + (opt_ref.to - opt_ref.from) \div 2 <= UsizeMax) =>
       /\ 0 <= opt_ref'.from /\ opt_ref'.from <= opt_ref'.to
       /\ cmd'.name \in {"<", ">"}
            => opt_ref'.to - opt_ref'.from = opt_ref.to - opt_ref.from
       /\ (cmd'.name = "<" /\ opt_ref.from = 0) => opt_ref' = opt_ref
       /\ opt_ref' = [opt_ref EXCEPT !.from = opt_ref'.from, !.to = opt_ref'.to]
    ]_vars

====
